---- MODULE Spec2Model ----
(***************************************************************************)
(* A model of pyFTS.common.fts.FTS (the abstract fuzzy time series model)  *)
(* and of its collaborators as far as the base class uses them.            *)
(*                                                                         *)
(* Python values are encoded as follows.                                   *)
(*   - a list / numpy array of numbers : a sequence of integers            *)
(*   - **kwargs                        : a function from option names to   *)
(*                                       values; an option that was not    *)
(*                                       passed is not in its DOMAIN       *)
(*   - None / False / True of the      : the strings "None", "False",      *)
(*     'distributed' option              "True"                            *)
(*   - a raised exception              : its class name in `raised`        *)
(*                                       ("none" when the call returned)   *)
(***************************************************************************)
EXTENDS Integers, Sequences, FiniteSets, TLC

VARIABLES
    pc,      \* "ready": the call described by op/self/data/kwargs is pending; "done": it has ended
    op,      \* the public operation under call: "predict", "fit", ...
    self,    \* the fields of the FTS object the operation reads and writes
    old,     \* history: the fields of the object when the call started
    data,    \* the positional data argument
    kwargs,  \* the other arguments of the call: the keyword options of predict and fit
    trace,   \* the calls made to overridable operations and collaborators, in order
    work,    \* forecast_ahead: its working list when it ended
    ret,     \* the value returned ([bound |-> FALSE] while nothing was returned)
    raised,  \* the exception that ended the call, "none" otherwise
    heap,    \* the objects held by reference (rule groups, transformation lists), by identity
    flrgs,   \* for each model its dict flrgs: the items (key, group identity) in insertion order
    mpc      \* the position of the running merge call, and a history of it

callVars == <<pc, op, self, old, data, kwargs, trace, work, ret, raised>>
vars == <<pc, op, self, old, data, kwargs, trace, work, ret, raised, heap, flrgs, mpc>>

(***************************************************************************)
(* Bounds of the model.                                                    *)
(***************************************************************************)
MaxLen == 3        \* longest input series of predict / forecast_ahead
MaxSteps == 3      \* largest steps_ahead
MaxLag == 2        \* largest order / max_lag
MaxPipeline == 3   \* longest transformation pipeline
MaxData == 6       \* longest training series of fit
MaxBatches == 4    \* largest num_batches of fit
MaxMerges == 2     \* number of merge calls in a run
MaxRHS == 4        \* longest right-hand side of a rule group
MaxSets == 3       \* largest number of fuzzy sets of a model
MaxMu == 2         \* membership grades are 0, 1/MaxMu, ..., 1
MaxAppends == 2    \* number of transformations appended in a run of clone_parameters

(***************************************************************************)
(* Python helpers.                                                         *)
(***************************************************************************)
Min2(a, b) == IF a <= b THEN a ELSE b
Max2(a, b) == IF a >= b THEN a ELSE b

\* index normalisation of a slice bound i on a sequence of length n
SliceIndex(i, n) == IF i < 0 THEN Max2(i + n, 0) ELSE Min2(i, n)

\* s[lo:hi] with 0-based Python bounds
PySlice(s, lo, hi) == SubSeq(s, SliceIndex(lo, Len(s)) + 1, SliceIndex(hi, Len(s)))

\* s[lo:]
PyTail(s, lo) == SubSeq(s, SliceIndex(lo, Len(s)) + 1, Len(s))

\* kwargs.pop(k) / a dict without key k
Without(kw, k) == [x \in (DOMAIN kw) \ {k} |-> kw[x]]

\* kwargs.get(k, default)
Get(kw, k, default) == IF k \in DOMAIN kw THEN kw[k] ELSE default

Unbound == [bound |-> FALSE, val |-> <<>>]
Bound(v) == [bound |-> TRUE, val |-> v]

\* outcome of a call: the exception raised ("none") and the value returned
Ok(v) == [err |-> "none", val |-> v]
Raise(e) == [err |-> e, val |-> <<>>]

(***************************************************************************)
(* Transformations (pyFTS.common.Transformations): the collaborators       *)
(* apply(data, param) and inverse(data, param, **kwargs).  Two invertible  *)
(* transformations that do not commute stand for them.                     *)
(***************************************************************************)
Transformations == {"shift", "neg"}

TApply(t, xs) == [i \in 1..Len(xs) |-> IF t = "shift" THEN xs[i] + 1 ELSE 0 - xs[i]]

TInverse(t, xs) == [i \in 1..Len(xs) |-> IF t = "shift" THEN xs[i] - 1 ELSE 0 - xs[i]]

\* FTS.apply_transformations with params = None and updateUoD = False, as
\* predict and fit call it: every stage consumes the previous stage's output
RECURSIVE ApplyLoop(_, _, _)
ApplyLoop(ts, c, ndata) ==
    IF c > Len(ts) THEN ndata
    ELSE ApplyLoop(ts, c + 1, TApply(ts[c], ndata))

apply_transformations(ts, xs) ==
    IF Len(ts) > 0 THEN ApplyLoop(ts, 1, xs) ELSE xs

Reversed(s) == [i \in 1..Len(s) |-> s[Len(s) + 1 - i]]

NoParams == [given |-> FALSE, list |-> <<>>]
Params(l) == [given |-> TRUE, list |-> l]

\* the loop of FTS.apply_inverse_transformations: stage c (1-based here) of the
\* reversed traversal reads params[c] and calls t.inverse on `xs`, the argument
\* of the call, and assigns the result to ndata
RECURSIVE InverseLoop(_, _, _, _, _)
InverseLoop(rts, xs, params, c, ndata) ==
    IF c > Len(rts) THEN Ok(ndata)
    ELSE IF params.given /\ c > Len(params.list) THEN Raise("IndexError")
    ELSE InverseLoop(rts, xs, params, c + 1, TInverse(rts[c], xs))

apply_inverse_transformations(ts, xs, params) ==
    IF Len(ts) > 0
    THEN InverseLoop(Reversed(ts), xs, params, 1, <<>>)
    ELSE Ok(xs)

\* np.clip(xs, lo, hi) = minimum(maximum(xs, lo), hi)
Clip(xs, lo, hi) == [i \in 1..Len(xs) |-> Min2(Max2(xs[i], lo), hi)]

(***************************************************************************)
(* The forecasting operations.  The base class raises NotImplementedError  *)
(* in all of them but forecast_ahead; a concrete model overrides the ones  *)
(* in self.overrides.  An override of the one-step point forecast is one   *)
(* of two stubs: "const" returns the scalar self.stub.c, "list" returns a  *)
(* list with one forecast per element of its input.                       *)
(***************************************************************************)
OneStepOps == {"forecast", "forecast_interval", "forecast_distribution", "forecast_multivariate"}
AheadOps == {"forecast_ahead_interval", "forecast_ahead_distribution", "forecast_ahead_multivariate"}

\* a call as the trace records it: who made it, the operation, the positional
\* data, the positional steps (hasSteps = FALSE when none was passed), the keyword
\* options and any further positional arguments
Call(by, o, xs, hasSteps, steps, kw, extra) ==
    [by |-> by, op |-> o, data |-> xs, hasSteps |-> hasSteps, steps |-> steps,
     kw |-> kw, extra |-> extra]

\* the result of a one-step operation: a list, or a scalar held in val[1]
OneStep(isList, v) == [err |-> "none", isList |-> isList, val |-> v]
OneStepRaise(e) == [err |-> e, isList |-> FALSE, val |-> <<>>]

\* self.forecast(data, **kwargs) and the other one-step operations
forecast(me, o, xs) ==
    IF o \notin me.overrides THEN OneStepRaise("NotImplementedError")
    ELSE IF me.stub.kind = "const" THEN OneStep(FALSE, <<me.stub.c>>)
    ELSE OneStep(TRUE, [i \in 1..Len(xs) |-> xs[i] + 1])

\* the overridden multi-step operations other than forecast_ahead
forecast_ahead_other(me, o, xs, steps) ==
    IF o \notin me.overrides THEN Raise("NotImplementedError")
    ELSE Ok([i \in 1..steps |-> i])

AheadResult(e, out, calls, wk) == [err |-> e, val |-> out, calls |-> calls, work |-> wk]

\* the loop of FTS.forecast_ahead: iteration k (0-based) of np.arange(0, steps)
RECURSIVE AheadLoop(_, _, _, _, _, _, _)
AheadLoop(me, kw, wk, k, steps, out, calls) ==
    IF k >= steps THEN AheadResult("none", out, calls, wk)
    ELSE LET window == PyTail(wk, 0 - me.max_lag)
             r == forecast(me, "forecast", window)
             calls1 == Append(calls, Call("forecast_ahead", "forecast", window, FALSE, 0, kw, <<>>))
         IN  IF r.err # "none" THEN AheadResult(r.err, <<>>, calls1, wk)
             ELSE IF r.isList /\ r.val = <<>> THEN AheadResult("IndexError", <<>>, calls1, wk)
             ELSE LET tmp == IF r.isList THEN r.val[Len(r.val)] ELSE r.val[1]
                  IN  AheadLoop(me, kw, Append(wk, tmp), k + 1, steps, Append(out, tmp), calls1)

\* mutant: the loop runs over np.arange(1, steps)
forecast_ahead_FromOne(me, xs, steps, kw) == AheadLoop(me, kw, xs, 1, steps, <<>>, <<>>)

\* FTS.forecast_ahead(data, steps, **kwargs); data.tolist() of an array and the
\* list itself are the same sequence here
forecast_ahead(me, xs, steps, kw) == AheadLoop(me, kw, xs, 0, steps, <<>>, <<>>)

(***************************************************************************)
(* FTS.__init__: the fields of a freshly constructed base model.  A dict   *)
(* is its items in insertion order; sets and partitioner may be None.      *)
(***************************************************************************)
NoneValue == [none |-> TRUE, items |-> <<>>]
Dict(items) == [none |-> FALSE, items |-> items]
NoPartitioner == [none |-> TRUE, sets |-> NoneValue]
Partitioner(sets) == [none |-> FALSE, sets |-> sets]

FTS(order, partitioner) ==
    [sets |-> IF partitioner.none THEN Dict(<<>>) ELSE partitioner.sets,
     order |-> order,
     is_multivariate |-> FALSE,
     transformations |-> <<>>,
     original_max |-> 0,
     original_min |-> 0,
     partitioner |-> partitioner,
     benchmark_only |-> FALSE,
     uod_clip |-> TRUE,
     max_lag |-> order,
     overrides |-> {},
     stub |-> [kind |-> "list", c |-> 0]]

(***************************************************************************)
(* FTS.predict                                                             *)
(***************************************************************************)
Types == {"point", "interval", "distribution", "multivariate"}

OneStepOf(type) ==
    CASE type = "point" -> "forecast"
      [] type = "interval" -> "forecast_interval"
      [] type = "distribution" -> "forecast_distribution"
      [] type = "multivariate" -> "forecast_multivariate"

AheadOf(type) ==
    CASE type = "point" -> "forecast_ahead"
      [] type = "interval" -> "forecast_ahead_interval"
      [] type = "distribution" -> "forecast_ahead_distribution"
      [] type = "multivariate" -> "forecast_ahead_multivariate"

DefaultNodes == <<"127.0.0.1">>
DefaultNumBatches == 10

\* Util.distributed_predict(model, kwargs, nodes, data, num_batches): the
\* orchestrator, which returns the assembled forecasts
distributed_predict(me, kw, nodes, xs, num_batches) ==
    Ok([i \in 1..Len(xs) |-> xs[i] + 1])

\* the outcome of predict: the exception, the value of the local `ret`, the calls
Outcome(e, r, calls) == [err |-> e, ret |-> r, calls |-> calls]

\* lines 104-110: the preprocessed data
Preprocess(me, xs) ==
    IF me.is_multivariate THEN xs
    ELSE LET ndata == apply_transformations(me.transformations, xs)
         IN  IF me.uod_clip THEN Clip(ndata, me.original_min, me.original_max) ELSE ndata

\* the call predict makes when steps_ahead > 1 and type is recognised (lines 135-143):
\* forecast_ahead_multivariate is called without its positional `steps`
DispatchAhead(me, type, ndata, steps, kw) ==
    IF type = "point"
    THEN LET r == forecast_ahead(me, ndata, steps, kw)
         IN  Outcome(r.err, IF r.err = "none" THEN Bound(r.val) ELSE Unbound,
                     <<Call("predict", "forecast_ahead", ndata, TRUE, steps, kw, <<>>)>> \o r.calls)
    ELSE IF type = "multivariate"
    THEN Outcome("TypeError", Unbound,
                 <<Call("predict", "forecast_ahead_multivariate", ndata, FALSE, 0, kw, <<>>)>>)
    ELSE LET r == forecast_ahead_other(me, AheadOf(type), ndata, steps)
         IN  Outcome(r.err, IF r.err = "none" THEN Bound(r.val) ELSE Unbound,
                     <<Call("predict", AheadOf(type), ndata, TRUE, steps, kw, <<>>)>>)

\* lines 126-143 for a recognised type: the dispatch on steps_ahead; no branch is
\* taken for steps_ahead < 1, and `ret` stays unbound
DispatchSteps(me, type, ndata, kw) ==
    LET absent == "steps_ahead" \notin DOMAIN kw
    IN  IF absent \/ kw["steps_ahead"] = 1
        THEN LET r == forecast(me, OneStepOf(type), ndata)
             IN  Outcome(r.err, IF r.err = "none" THEN Bound(r.val) ELSE Unbound,
                         <<Call("predict", OneStepOf(type), ndata, FALSE, 0, kw, <<>>)>>)
        ELSE IF kw["steps_ahead"] > 1
        THEN DispatchAhead(me, type, ndata, kw["steps_ahead"], kw)
        ELSE Outcome("none", Unbound, <<>>)

\* mutant: the last `elif type == 'multivariate'` of each chain written as `else`
Dispatch_LastBranchIsElse(me, type, ndata, kw) ==
    DispatchSteps(me, IF type \in Types THEN type ELSE "multivariate", ndata, kw)

\* lines 126-143: no branch of the if/elif chains is taken for an unknown type
Dispatch(me, type, ndata, kw) ==
    IF type \notin Types THEN Outcome("none", Unbound, <<>>)
    ELSE DispatchSteps(me, type, ndata, kw)

\* lines 155-159: `type` is a local of predict that only the non-distributed branch
\* binds; reading it, or `ret`, while unbound raises UnboundLocalError
Postprocess(me, xs, typeBound, r, calls) ==
    IF ~me.is_multivariate
    THEN IF ~typeBound \/ ~r.bound THEN Outcome("UnboundLocalError", Unbound, calls)
         ELSE LET inv == apply_inverse_transformations(me.transformations, r.val,
                                                        Params(<<PyTail(xs, me.max_lag - 1)>>))
              IN  Outcome(inv.err, IF inv.err = "none" THEN Bound(inv.val) ELSE Unbound, calls)
    ELSE IF ~r.bound THEN Outcome("UnboundLocalError", Unbound, calls)
         ELSE Outcome("none", r, calls)

predict(me, xs, kw) ==
    LET ndata == Preprocess(me, xs)
        distributed == Get(kw, "distributed", "False")
        kw1 == Without(kw, "distributed")
    IN  IF distributed \in {"None", "False"}
        THEN LET type == Get(kw1, "type", "point")
                 kw2 == Without(kw1, "type")
                 d == Dispatch(me, type, ndata, kw2)
             IN  IF d.err # "none" THEN d
                 ELSE IF type \notin Types THEN Outcome("ValueError", Unbound, d.calls)
                 ELSE Postprocess(me, xs, TRUE, d.ret, d.calls)
        ELSE LET nodes == Get(kw1, "nodes", DefaultNodes)
                 num_batches == Get(kw1, "num_batches", DefaultNumBatches)
                 r == distributed_predict(me, kw1, nodes, ndata, num_batches)
                 call == Call("predict", "distributed_predict", ndata, FALSE, 0, kw1,
                              <<nodes, num_batches>>)
             IN  Postprocess(me, xs, FALSE, Bound(r.val), <<call>>)

(***************************************************************************)
(* FTS.fuzzy.  A fuzzy set (pyFTS.common.FuzzySet) is its name and its     *)
(* membership at the data points 0, 1, ..., in units of 1/MaxMu.           *)
(***************************************************************************)
FuzzySet(name, mf) == [name |-> name, mf |-> mf]

\* fset.membership(d)
membership(fset, d) == fset.mf[d + 1]

Best(name, mu) == [fuzzyset |-> name, membership |-> mu]

\* mutant: the comparison is strict
Replaces_Strict(best, mu) == best.membership < mu

\* line 79: best["membership"] <= fset.membership(data)
Replaces(best, mu) == best.membership <= mu

\* lines 77-81: the loop over self.sets in iteration order
RECURSIVE FuzzyLoop(_, _, _, _)
FuzzyLoop(items, i, d, best) ==
    IF i > Len(items) THEN best
    ELSE LET fset == items[i]
         IN  FuzzyLoop(items, i + 1, d,
                       IF Replaces(best, membership(fset, d))
                       THEN Best(fset.name, membership(fset, d))
                       ELSE best)

\* FTS.fuzzy(data); iterating self.sets = None raises TypeError
fuzzy(me, d) ==
    IF me.sets.none THEN Raise("TypeError")
    ELSE Ok(FuzzyLoop(me.sets.items, 1, d, Best("", 0)))

(***************************************************************************)
(* FTS.merge.  A rule group is an object on the heap: its canonical key,   *)
(* the kind of its RHS and the RHS in iteration order.  merge runs step by *)
(* step: one step per key of model.flrgs and one per element of an         *)
(* incoming RHS, since the loop over flrg.RHS reads the live object.       *)
(***************************************************************************)
Group(key, kind, rhs) == [key |-> key, kind |-> kind, rhs |-> rhs]

Elements(s) == {s[i] : i \in 1..Len(s)}

\* FLRG.append_rhs(c): a list RHS grows by c, a set or dict RHS gets c when it is
\* new, any other RHS is replaced by c
append_rhs(g, c) ==
    CASE g.kind = "list" -> [g EXCEPT !.rhs = Append(@, c)]
      [] g.kind \in {"set", "dict"} ->
            IF c \in Elements(g.rhs) THEN g ELSE [g EXCEPT !.rhs = Append(@, c)]
      [] OTHER -> [g EXCEPT !.rhs = <<c>>]

KeysOf(items) == {items[i].key : i \in 1..Len(items)}

\* self.flrgs[key]: the identity of the group stored under key
Lookup(items, key) == (CHOOSE i \in 1..Len(items) : items[i].key = key)

Item(key, gid) == [key |-> key, gid |-> gid]

Idle(count) ==
    [phase |-> "idle", self |-> "none", model |-> "none", ki |-> 0, ri |-> 0,
     n0 |-> 0, na |-> 0, keys0 |-> {}, count |-> count]

\* the state of the specifications that call no merge
NoMerge == heap = <<>> /\ flrgs = <<>> /\ mpc = Idle(0)

\* the state of the specifications that call only merge
NoCall ==
    /\ pc = "done" /\ op = "merge" /\ self = <<>> /\ old = <<>> /\ data = <<>>
    /\ kwargs = <<>> /\ trace = <<>> /\ work = <<>> /\ ret = Unbound /\ raised = "none"

\* a.merge(b) is called: the loop over b.flrgs.keys() starts
MergeCall(a, b) ==
    /\ mpc.phase = "idle"
    /\ mpc.count < MaxMerges
    /\ mpc' = [phase |-> "keys", self |-> a, model |-> b, ki |-> 1, ri |-> 0,
               n0 |-> 0, na |-> 0, keys0 |-> KeysOf(flrgs[a]), count |-> mpc.count]
    /\ UNCHANGED <<heap, flrgs>>
    /\ UNCHANGED callVars

\* lines 414-426 for the next key: the call returns after the last key; a group whose
\* key self has not is inserted by reference; a list, set or dict RHS starts the loop
\* over its elements; any other RHS is appended as one value
MergeKey ==
    /\ mpc.phase = "keys"
    /\ LET src == flrgs[mpc.model]
           mine == flrgs[mpc.self]
       IN  IF mpc.ki > Len(src)
           THEN /\ mpc' = [mpc EXCEPT !.phase = "idle", !.count = @ + 1]
                /\ UNCHANGED <<heap, flrgs>>
           ELSE LET gid == src[mpc.ki].gid
                    flrg == heap[gid]
                IN  IF flrg.key \notin KeysOf(mine)
                    THEN /\ flrgs' = [flrgs EXCEPT ![mpc.self] = Append(@, Item(flrg.key, gid))]
                         /\ mpc' = [mpc EXCEPT !.ki = @ + 1]
                         /\ UNCHANGED heap
                    ELSE IF flrg.kind \in {"list", "set", "dict"}
                    THEN /\ mpc' = [mpc EXCEPT !.phase = "rhs", !.ri = 1,
                                                !.n0 = Len(flrg.rhs), !.na = 0]
                         /\ UNCHANGED <<heap, flrgs>>
                    ELSE LET tgt == mine[Lookup(mine, flrg.key)].gid
                         IN  /\ heap' = [heap EXCEPT ![tgt] = append_rhs(@, flrg.rhs[1])]
                             /\ mpc' = [mpc EXCEPT !.ki = @ + 1, !.n0 = 1, !.na = 1]
                             /\ UNCHANGED flrgs
    /\ UNCHANGED callVars

\* lines 420-421 and 423-424: one iteration of the loop over the incoming RHS, which
\* ends when the iterator has passed the last element the RHS has by then
MergeAppend ==
    /\ mpc.phase = "rhs"
    /\ LET flrg == heap[flrgs[mpc.model][mpc.ki].gid]
           mine == flrgs[mpc.self]
           tgt == mine[Lookup(mine, flrg.key)].gid
       IN  IF mpc.ri > Len(flrg.rhs)
           THEN /\ mpc' = [mpc EXCEPT !.phase = "keys", !.ki = @ + 1]
                /\ UNCHANGED heap
           ELSE /\ Len(append_rhs(heap[tgt], flrg.rhs[mpc.ri]).rhs) <= MaxRHS
                /\ heap' = [heap EXCEPT ![tgt] = append_rhs(@, flrg.rhs[mpc.ri])]
                /\ mpc' = [mpc EXCEPT !.ri = @ + 1, !.na = @ + 1]
    /\ UNCHANGED flrgs
    /\ UNCHANGED callVars

(***************************************************************************)
(* The specification of predict: one call of predict on a model and with   *)
(* arguments drawn from the sets below.                                    *)
(***************************************************************************)
\* an option that may be absent: the empty dict, or the dict {k: v}
Opt(k, S) == {<<>>} \cup {k :> v : v \in S}

\* one series per length, with values on both sides of the clipping bounds
Series(n) == [i \in 1..n |-> ((2 * i) % 3) - 1]

AllOverrides == OneStepOps \cup AheadOps

PipelineSet == {<<>>, <<"shift">>, <<"shift", "neg">>}

PredictModels ==
    { [FTS(lag, NoPartitioner) EXCEPT
          !.is_multivariate = mv,
          !.uod_clip = uod[1], !.original_min = uod[2], !.original_max = uod[3],
          !.transformations = ts,
          !.overrides = ov,
          !.stub = st] :
        lag \in 1..MaxLag, mv \in BOOLEAN,
        uod \in {<<FALSE, 0, 0>>, <<TRUE, 0, 0>>, <<TRUE, -1, 1>>},
        ts \in PipelineSet,
        ov \in {{}, AllOverrides},
        st \in {[kind |-> "const", c |-> 7], [kind |-> "list", c |-> 0]} }

DistributedOptions ==
    Opt("distributed", {"None", "False"})
    \cup { ("distributed" :> "True") @@ n @@ b :
             n \in Opt("nodes", {<<"10.0.0.1", "10.0.0.2">>}), b \in Opt("num_batches", {2}) }

PredictKwargs ==
    { t @@ s @@ d :
        t \in Opt("type", Types \cup {"bogus"}),
        s \in Opt("steps_ahead", 0..MaxSteps),
        d \in DistributedOptions }

InitPredict ==
    /\ pc = "ready"
    /\ op = "predict"
    /\ self \in PredictModels
    /\ old = self
    /\ data \in {Series(n) : n \in 1..MaxLen}
    /\ kwargs \in PredictKwargs
    /\ trace = <<>>
    /\ work = <<>>
    /\ ret = Unbound
    /\ raised = "none"
    /\ NoMerge

Predict ==
    /\ pc = "ready"
    /\ op = "predict"
    /\ LET o == predict(self, data, kwargs)
       IN  /\ trace' = o.calls
           /\ ret' = o.ret
           /\ raised' = o.err
    /\ pc' = "done"
    /\ UNCHANGED <<op, self, old, data, kwargs, work, heap, flrgs, mpc>>

NextPredict == Predict

SpecPredict == InitPredict /\ [][NextPredict]_vars

\* the arguments of the predict call that has ended
PredictDone == pc = "done" /\ op = "predict"
IsDistributed == Get(kwargs, "distributed", "False") = "True"
ResolvedType == Get(kwargs, "type", "point")
StepsAbsentOrOne == "steps_ahead" \notin DOMAIN kwargs \/ kwargs["steps_ahead"] = 1
StepsMany == "steps_ahead" \in DOMAIN kwargs /\ kwargs["steps_ahead"] > 1
CallsBy(who) == SelectSeq(trace, LAMBDA c : c.by = who)

\* C1: on the non-distributed path and for a recognised type, predict invokes exactly
\* one forecasting operation: the one-step operation of the type when steps_ahead is
\* absent or 1, and the multi-step operation of the type, with the preprocessed data
\* and steps = steps_ahead, when steps_ahead > 1.
C1_DispatchesOneOperation ==
    (PredictDone /\ ~IsDistributed /\ ResolvedType \in Types) =>
        LET top == CallsBy("predict")
        IN  /\ StepsAbsentOrOne =>
                /\ Len(top) = 1
                /\ top[1].op = OneStepOf(ResolvedType)
                /\ top[1].data = Preprocess(self, data)
            /\ StepsMany =>
                /\ Len(top) = 1
                /\ top[1].op = AheadOf(ResolvedType)
                /\ top[1].data = Preprocess(self, data)
                /\ top[1].hasSteps
                /\ top[1].steps = kwargs["steps_ahead"]

\* C2: on the non-distributed path an unknown type ends predict with ValueError,
\* whatever steps_ahead is, with no forecasting operation invoked and nothing returned.
C2_UnknownTypeFails ==
    (PredictDone /\ ~IsDistributed /\ ResolvedType \notin Types) =>
        /\ raised = "ValueError"
        /\ trace = <<>>
        /\ ~ret.bound

C2_Witness ==
    /\ PredictDone /\ ~IsDistributed /\ ResolvedType \notin Types
    /\ StepsMany
    /\ self.overrides # {}
    /\ raised = "ValueError"

\* C3: predict with distributed = true on a non-multivariate model forwards the model,
\* the options, the preprocessed data, the nodes (default ['127.0.0.1']) and the batch
\* count (default 10) to the orchestrator and completes with a forecast, not an error.
C3_DistributedReturnsForecast ==
    (PredictDone /\ IsDistributed /\ ~self.is_multivariate) =>
        /\ Len(trace) = 1
        /\ trace[1].op = "distributed_predict"
        /\ trace[1].data = Preprocess(self, data)
        /\ trace[1].extra = <<Get(kwargs, "nodes", DefaultNodes),
                              Get(kwargs, "num_batches", DefaultNumBatches)>>
        /\ raised = "none"
        /\ ret.bound

(***************************************************************************)
(* The specification of forecast_ahead: one call on a model whose one-step *)
(* forecast is a stub (or the base method, which raises).                 *)
(***************************************************************************)
Values == 0..1
SeriesUpTo(n) == UNION {[1..k -> Values] : k \in 0..n}

AheadModels ==
    { [FTS(lag, NoPartitioner) EXCEPT !.overrides = ov, !.stub = st] :
        lag \in 1..MaxLag,
        ov \in {{}, {"forecast"}},
        st \in {[kind |-> "const", c |-> 7], [kind |-> "list", c |-> 0]} }

InitAhead ==
    /\ pc = "ready"
    /\ op = "forecast_ahead"
    /\ self \in AheadModels
    /\ old = self
    /\ data \in SeriesUpTo(MaxLen)
    /\ kwargs \in {"steps" :> k : k \in 0..MaxSteps}
    /\ trace = <<>>
    /\ work = <<>>
    /\ ret = Unbound
    /\ raised = "none"
    /\ NoMerge

ForecastAhead ==
    /\ pc = "ready"
    /\ op = "forecast_ahead"
    /\ LET r == forecast_ahead(self, data, kwargs["steps"], <<>>)
       IN  /\ trace' = r.calls
           /\ work' = r.work
           /\ ret' = IF r.err = "none" THEN Bound(r.val) ELSE Unbound
           /\ raised' = r.err
    /\ pc' = "done"
    /\ UNCHANGED <<op, self, old, data, kwargs, heap, flrgs, mpc>>

NextAhead == ForecastAhead

SpecAhead == InitAhead /\ [][NextAhead]_vars

\* the last n elements of a sequence that has at least n
LastN(s, n) == [i \in 1..n |-> s[Len(s) - n + i]]

AheadDone == pc = "done" /\ op = "forecast_ahead"

\* C8: forecast_ahead(data, steps) with len(data) >= max_lag calls the one-step
\* forecast exactly steps times and returns exactly steps elements; the k-th call
\* receives the last max_lag elements of the data followed by the k-1 forecasts made
\* so far, each forecast being the final element of the one-step result; the working
\* list grows by one element per step; with a constant stub every element is c.
C8_IteratedForecast ==
    (AheadDone /\ Len(data) >= self.max_lag /\ "forecast" \in self.overrides) =>
        LET steps == kwargs["steps"]
        IN  /\ raised = "none"
            /\ ret.bound
            /\ Len(trace) = steps
            /\ Len(ret.val) = steps
            /\ work = data \o ret.val
            /\ \A k \in 1..steps :
                  /\ trace[k].op = "forecast"
                  /\ trace[k].data = LastN(data \o SubSeq(ret.val, 1, k - 1), self.max_lag)
                  /\ self.stub.kind = "const" => ret.val[k] = self.stub.c
                  /\ self.stub.kind = "list" => ret.val[k] = trace[k].data[self.max_lag] + 1

C8_Witness ==
    /\ AheadDone /\ raised = "none"
    /\ self.max_lag = 2 /\ Len(data) = 3 /\ kwargs["steps"] = 3
    /\ self.stub.kind = "list"
    /\ Len(trace) = 3
    /\ trace[3].data = SubSeq(ret.val, 1, 2)

(***************************************************************************)
(* The specification of the transformation pipeline: the inverse pipeline  *)
(* applied to a series, or to the output of the forward pipeline.          *)
(***************************************************************************)
Pipelines == UNION {[1..n -> Transformations] : n \in 0..MaxPipeline}

InitTransform ==
    /\ pc = "ready"
    /\ op = "apply_inverse_transformations"
    /\ self \in {[FTS(1, NoPartitioner) EXCEPT !.transformations = ts] : ts \in Pipelines}
    /\ old = self
    /\ data \in SeriesUpTo(2)
    /\ kwargs = <<>>
    /\ trace = <<>>
    /\ work = <<>>
    /\ ret = Unbound
    /\ raised = "none"
    /\ NoMerge

\* ndata = self.apply_transformations(data)
ApplyTransformations ==
    /\ pc = "ready"
    /\ op = "apply_inverse_transformations"
    /\ work' = apply_transformations(self.transformations, data)
    /\ trace' = Append(trace, Call("caller", "apply_transformations", data, FALSE, 0, <<>>, <<>>))
    /\ pc' = "applied"
    /\ UNCHANGED <<op, self, old, data, kwargs, ret, raised, heap, flrgs, mpc>>

\* self.apply_inverse_transformations(x), x the input series or the forward output
ApplyInverseTransformations ==
    /\ pc \in {"ready", "applied"}
    /\ op = "apply_inverse_transformations"
    /\ LET x == IF pc = "ready" THEN data ELSE work
           r == apply_inverse_transformations(self.transformations, x, NoParams)
       IN  /\ trace' = Append(trace, Call("caller", "apply_inverse_transformations", x,
                                          FALSE, 0, <<>>, <<>>))
           /\ ret' = IF r.err = "none" THEN Bound(r.val) ELSE Unbound
           /\ raised' = r.err
    /\ pc' = "done"
    /\ UNCHANGED <<op, self, old, data, kwargs, work, heap, flrgs, mpc>>

NextTransform == ApplyTransformations \/ ApplyInverseTransformations

SpecTransform == InitTransform /\ [][NextTransform]_vars

\* t1.inverse(t2.inverse(... tn.inverse(x) ...))
RECURSIVE InverseComposition(_, _)
InverseComposition(ts, x) ==
    IF ts = <<>> THEN x ELSE TInverse(Head(ts), InverseComposition(Tail(ts), x))

\* C7: apply_inverse_transformations returns t1.inverse(t2.inverse(... tn.inverse(data))),
\* each inverse consuming the previous stage's output, so that it undoes
\* apply_transformations for any number of transformations; with none it returns the data.
C7_InverseIsComposition ==
    (pc = "done" /\ op = "apply_inverse_transformations") =>
        /\ raised = "none"
        /\ ret.bound
        /\ ret.val = InverseComposition(self.transformations, trace[Len(trace)].data)
        /\ Len(trace) = 2 => ret.val = data

(***************************************************************************)
(* FTS.fit.  The trace holds the calls of train, Util.persist_obj and      *)
(* Util.distributed_train in the order fit makes them; `ct` is the value   *)
(* of the loop variable (the window offset) at a batched train call.       *)
(***************************************************************************)
GridSets == Dict(<<FuzzySet("A", <<1, 0>>), FuzzySet("B", <<0, 1>>)>>)
OtherSets == Dict(<<FuzzySet("C", <<1, 1>>)>>)

TrainEvent(ct, xs, kw) == [ev |-> "train", ct |-> ct, data |-> xs, kw |-> kw, path |-> "none"]
PersistEvent(path) == [ev |-> "persist", ct |-> -1, data |-> <<>>, kw |-> <<>>, path |-> path]
DistributedTrainEvent(xs, kw) ==
    [ev |-> "distributed_train", ct |-> -1, data |-> xs, kw |-> kw, path |-> "none"]

FitOutcome(e, me, events) == [err |-> e, self |-> me, events |-> events]

SeqMin(xs) == CHOOSE m \in {xs[i] : i \in 1..Len(xs)} : \A i \in 1..Len(xs) : m <= xs[i]
SeqMax(xs) == CHOOSE m \in {xs[i] : i \in 1..Len(xs)} : \A i \in 1..Len(xs) : m >= xs[i]

\* lines 289-301: the transformed data bounds the universe of discourse; the
\* 'sets' and 'partitioner' options replace the model's
Resolve(me, tdata, kw) ==
    LET m1 == IF me.is_multivariate THEN me
              ELSE [me EXCEPT !.original_min = SeqMin(tdata), !.original_max = SeqMax(tdata)]
        m2 == IF "sets" \in DOMAIN kw THEN [m1 EXCEPT !.sets = kw["sets"]] ELSE m1
    IN  IF "partitioner" \in DOMAIN kw THEN [m2 EXCEPT !.partitioner = kw["partitioner"]] ELSE m2

\* mutant: the benchmark_only exemption is forgotten
Validate_IgnoresBenchmark(me) ==
    IF (me.sets.none \/ Len(me.sets.items) = 0) /\ ~me.is_multivariate
    THEN IF ~me.partitioner.none
         THEN FitOutcome("none", [me EXCEPT !.sets = me.partitioner.sets], <<>>)
         ELSE FitOutcome("Exception", me, <<>>)
    ELSE FitOutcome("none", me, <<>>)

\* lines 303-307: a model that needs fuzzy sets and has none takes the partitioner's,
\* or fails when there is no partitioner
Validate(me) ==
    IF (me.sets.none \/ Len(me.sets.items) = 0) /\ ~me.benchmark_only /\ ~me.is_multivariate
    THEN IF ~me.partitioner.none
         THEN FitOutcome("none", [me EXCEPT !.sets = me.partitioner.sets], <<>>)
         ELSE FitOutcome("Exception", me, <<>>)
    ELSE FitOutcome("none", me, <<>>)

\* mutant: the model is persisted before the batch is trained
BatchStep_SaveFirst(tdata, order, ct, batch_size, kw) ==
    (IF Get(kw, "batch_save", FALSE) THEN <<PersistEvent(Get(kw, "file_path", "None"))>> ELSE <<>>)
    \o <<TrainEvent(ct, PySlice(tdata, ct - order, ct + batch_size), kw)>>

\* lines 350-365: one iteration of the batch loop
BatchStep(tdata, order, ct, batch_size, kw) ==
    <<TrainEvent(ct, PySlice(tdata, ct - order, ct + batch_size), kw)>>
    \o (IF Get(kw, "batch_save", FALSE) THEN <<PersistEvent(Get(kw, "file_path", "None"))>> ELSE <<>>)

\* for ct in range(order, n, batch_size), batch_size > 0
RECURSIVE BatchLoop(_, _, _, _, _)
BatchLoop(tdata, order, ct, batch_size, kw) ==
    IF ct >= Len(tdata) THEN <<>>
    ELSE BatchStep(tdata, order, ct, batch_size, kw)
         \o BatchLoop(tdata, order, ct + batch_size, batch_size, kw)

\* lines 334-371: training on this node, in batches when num_batches is given;
\* int(n / 0) raises ZeroDivisionError and range(order, n, 0) raises ValueError
TrainLocal(me, tdata, kw) ==
    IF "num_batches" \in DOMAIN kw
    THEN LET n == Len(tdata)
             num_batches == kw["num_batches"]
         IN  IF num_batches = 0 THEN FitOutcome("ZeroDivisionError", me, <<>>)
             ELSE IF n \div num_batches = 0 THEN FitOutcome("ValueError", me, <<>>)
             ELSE FitOutcome("none", me, BatchLoop(tdata, me.order, me.order, n \div num_batches, kw))
    ELSE FitOutcome("none", me, <<TrainEvent(-1, tdata, kw)>>)

\* lines 326-331: the orchestrator gets the data, the batch count and the
\* persistence options
TrainDistributed(me, tdata, kw) ==
    FitOutcome("none", me,
               <<DistributedTrainEvent(tdata,
                    [k \in (DOMAIN kw) \cap {"nodes", "num_batches", "batch_save", "file_path"} |-> kw[k]])>>)

\* lines 373-374
FinalSave(o, kw) ==
    IF o.err = "none" /\ Get(kw, "save_model", FALSE)
    THEN FitOutcome("none", o.self, Append(o.events, PersistEvent(Get(kw, "file_path", "None"))))
    ELSE o

fit(me, ndata, kw) ==
    LET tdata == IF me.is_multivariate THEN ndata ELSE apply_transformations(me.transformations, ndata)
        kw1 == Without(Without(kw, "sets"), "partitioner")
        v == Validate(Resolve(me, tdata, kw))
    IN  IF v.err # "none" THEN v
        ELSE LET m == IF "order" \in DOMAIN kw1 THEN [v.self EXCEPT !.order = kw1["order"]] ELSE v.self
                 kw2 == Without(kw1, "order")
             IN  FinalSave(IF Get(kw2, "distributed", "False") = "True"
                           THEN TrainDistributed(m, tdata, kw2)
                           ELSE TrainLocal(m, tdata, kw2),
                           kw2)

(***************************************************************************)
(* The specification of fit: one call of fit on a constructed model.  The  *)
(* training series holds its own indices, so a window shows its bounds.    *)
(***************************************************************************)
Ramp(n) == [i \in 1..n |-> i - 1]

FitModels ==
    { [FTS(1, p) EXCEPT !.is_multivariate = mv, !.benchmark_only = bo, !.transformations = ts] :
        p \in {NoPartitioner, Partitioner(Dict(<<>>)), Partitioner(GridSets)},
        mv \in BOOLEAN, bo \in BOOLEAN,
        ts \in {<<>>, <<"neg">>} }

FitKwargs ==
    { s @@ p @@ o @@ b @@ sv @@ bs @@ d @@ ("file_path" :> "model.pkl") :
        s \in Opt("sets", {NoneValue, Dict(<<>>), OtherSets}),
        p \in Opt("partitioner", {NoPartitioner, Partitioner(GridSets)}),
        o \in Opt("order", 1..MaxLag),
        b \in Opt("num_batches", 0..MaxBatches),
        sv \in Opt("save_model", {TRUE}),
        bs \in Opt("batch_save", {TRUE}),
        d \in Opt("distributed", {"True"}) }

\* the case of the documentation: 100 samples, order 2, 10 batches
ExampleData == Ramp(100)
ExampleKwargs == ("order" :> 2) @@ ("num_batches" :> 10)

InitFit ==
    /\ pc = "ready"
    /\ op = "fit"
    /\ \/ /\ self \in FitModels
          /\ data \in {Ramp(n) : n \in 1..MaxData}
          /\ kwargs \in FitKwargs
       \/ /\ self = FTS(1, Partitioner(GridSets))
          /\ data = ExampleData
          /\ kwargs = ExampleKwargs
    /\ old = self
    /\ trace = <<>>
    /\ work = <<>>
    /\ ret = Unbound
    /\ raised = "none"
    /\ NoMerge

Fit ==
    /\ pc = "ready"
    /\ op = "fit"
    /\ LET o == fit(self, data, kwargs)
       IN  /\ self' = o.self
           /\ trace' = o.events
           /\ raised' = o.err
    /\ pc' = "done"
    /\ UNCHANGED <<op, old, data, kwargs, work, ret, heap, flrgs, mpc>>

NextFit == Fit

SpecFit == InitFit /\ [][NextFit]_vars

FitDone == pc = "done" /\ op = "fit"
FitDistributed == Get(kwargs, "distributed", "False") = "True"
FitBatched == ~FitDistributed /\ "num_batches" \in DOMAIN kwargs
FitSave == Get(kwargs, "save_model", FALSE)
FitBatchSave == Get(kwargs, "batch_save", FALSE)
Events(name) == SelectSeq(trace, LAMBDA e : e.ev = name)
\* the series fit trains on: the transformed data of a non-multivariate model
Trained == IF old.is_multivariate THEN data ELSE apply_transformations(old.transformations, data)
\* the elements of s at the 0-based indices [lo, hi), hi cut at the end of s
Window(s, lo, hi) == [i \in 1..(Min2(hi, Len(s)) - lo) |-> s[lo + i]]

\* C4: non-distributed fit with num_batches = k on n samples (1 <= k <= n) and order o
\* calls train exactly k times; with b = floor(n / k) the i-th call (i = 0..k-1) gets
\* the window [offset_i - o, offset_i + b) of the data, offset_i = o + i*b.
C4_ExactlyKWindows ==
    (FitDone /\ FitBatched /\ raised = "none"
        /\ 1 <= kwargs["num_batches"] /\ kwargs["num_batches"] <= Len(data)) =>
        LET k == kwargs["num_batches"]
            o == self.order
            b == Len(data) \div k
            trains == Events("train")
        IN  /\ Len(trains) = k
            /\ \A i \in 0..(k - 1) :
                  trains[i + 1].data = Window(Trained, i * b, o + i * b + b)

\* the case n = 100, o = 2, k = 10 of C4: ten windows at the offsets 2, 12, ..., 92
C4_ExampleHolds ==
    (FitDone /\ data = ExampleData /\ kwargs = ExampleKwargs) =>
        LET trains == Events("train")
        IN  /\ Len(trains) = 10
            /\ \A i \in 0..9 :
                  /\ trains[i + 1].ct = 2 + 10 * i
                  /\ trains[i + 1].data = Window(data, 10 * i, 10 * i + 12)

\* C5: in batched fit the train calls come in strictly increasing offset order; with
\* batch_save each batch's train call is followed by a persist to file_path before the
\* next train call; with save_model exactly one further persist follows the last train
\* call on every path (batched, single train, distributed); with neither option set
\* nothing is ever persisted.
C5_OrderedTrainAndPersist ==
    (FitDone /\ raised = "none") =>
        LET trains == Events("train")
            persists == Events("persist")
            perBatch == IF FitBatched /\ FitBatchSave THEN Len(trains) ELSE 0
        IN  /\ FitBatched =>
                \A i, j \in 1..Len(trains) : i < j => trains[i].ct < trains[j].ct
            /\ (FitBatched /\ FitBatchSave) =>
                \A i \in 1..Len(trace) :
                    trace[i].ev = "train" =>
                        /\ i < Len(trace)
                        /\ trace[i + 1].ev = "persist"
                        /\ trace[i + 1].path = kwargs["file_path"]
            /\ FitSave =>
                /\ Len(persists) = perBatch + 1
                /\ trace[Len(trace)].ev = "persist"
                /\ trace[Len(trace)].path = kwargs["file_path"]
            /\ ~FitSave => Len(persists) = perBatch
            /\ (~FitSave /\ ~FitBatchSave) => Len(persists) = 0
            /\ ~FitDistributed => Len(Events("distributed_train")) = 0
            /\ FitDistributed => (Len(trains) = 0 /\ trace[1].ev = "distributed_train")
            /\ (~FitDistributed /\ ~FitBatched) => (Len(trains) = 1 /\ trace[1].ev = "train")

C5_Witness ==
    /\ FitDone /\ raised = "none"
    /\ FitBatched /\ FitBatchSave /\ FitSave
    /\ Len(Events("train")) = 3
    /\ Len(Events("persist")) = 4

\* the fuzzy sets and the partitioner of the call once the options are applied
ResolvedSets == IF "sets" \in DOMAIN kwargs THEN kwargs["sets"] ELSE old.sets
ResolvedPartitioner ==
    IF "partitioner" \in DOMAIN kwargs THEN kwargs["partitioner"] ELSE old.partitioner
NoSets == ResolvedSets.none \/ ResolvedSets.items = <<>>
NeedsSets == ~old.benchmark_only /\ ~old.is_multivariate

\* C6: fit fails with the "fuzzy sets were not provided" error exactly when, after the
\* sets/partitioner options are applied, the sets are empty or None, there is no
\* partitioner and the model is neither benchmark_only nor multivariate; then train is
\* never called and nothing is persisted.  With a partitioner the model's sets become
\* the partitioner's and training proceeds; benchmark_only and multivariate models
\* train with empty sets.
C6_MissingSetsFail ==
    FitDone =>
        /\ raised = "Exception" <=> (NoSets /\ ResolvedPartitioner.none /\ NeedsSets)
        /\ raised = "Exception" => trace = <<>>
        /\ (NoSets /\ ~ResolvedPartitioner.none /\ NeedsSets) =>
              /\ self.sets = ResolvedPartitioner.sets
              /\ "num_batches" \notin DOMAIN kwargs =>
                    (raised = "none" /\ trace[1].ev \in {"train", "distributed_train"})
        /\ (NoSets /\ ~NeedsSets) =>
              /\ self.sets = ResolvedSets
              /\ "num_batches" \notin DOMAIN kwargs =>
                    (raised = "none" /\ trace[1].ev \in {"train", "distributed_train"})

C6_Witness ==
    /\ FitDone /\ raised = "Exception"
    /\ ~old.sets.none /\ old.sets.items # <<>>
    /\ "sets" \in DOMAIN kwargs /\ kwargs["sets"].none
    /\ "partitioner" \in DOMAIN kwargs
    /\ FitSave /\ FitBatchSave

(***************************************************************************)
(* The specification of merge: two models, each owning up to two rule      *)
(* groups, and MaxMerges calls of merge between them in any order.         *)
(***************************************************************************)
Models == {"m1", "m2"}
GroupKeys == <<"A", "AB", "A", "AB">>      \* the key of the group with identity 1..4
Owner == <<"m1", "m1", "m2", "m2">>       \* the model that built it
RHSKinds == {"list", "set", "dict", "scalar"}
RHSChoices(kind) == IF kind = "scalar" THEN {<<"x">>, <<"y">>} ELSE {<<>>, <<"x">>, <<"x", "y">>}

\* the dict of model m when it owns the groups in `present`
OwnItems(m, present) ==
    LET ids == SelectSeq(<<1, 2, 3, 4>>, LAMBDA g : Owner[g] = m /\ g \in present)
    IN  [i \in 1..Len(ids) |-> Item(GroupKeys[ids[i]], ids[i])]

InitMerge ==
    /\ NoCall
    /\ \E kind \in RHSKinds, present \in SUBSET (1..4) :
         \E rhs \in [1..4 -> RHSChoices(kind)] :
            /\ \A g \in (1..4) \ present : rhs[g] = CHOOSE r \in RHSChoices(kind) : TRUE
            /\ heap = [g \in 1..4 |-> Group(GroupKeys[g], kind, rhs[g])]
            /\ flrgs = [m \in Models |-> OwnItems(m, present)]
    /\ mpc = Idle(0)

NextMerge ==
    \/ \E a \in Models, b \in Models : MergeCall(a, b)
    \/ MergeKey
    \/ MergeAppend

SpecMerge == InitMerge /\ [][NextMerge]_vars

\* C9: after self.merge(model), and after any sequence of merges, self's keys are its
\* previous keys and the keys of model's groups; a key that is new to self maps to the
\* very group object of the source model; for a colliding key the elements of the
\* incoming RHS are appended to self's group once each, so the loop over an incoming
\* RHS of n elements ends after exactly n append_rhs calls, also when the incoming
\* group is the one self already holds by reference.
C9_MergeAppendsEachOnce ==
    /\ (mpc.phase = "idle" /\ mpc.count > 0) =>
          /\ KeysOf(flrgs[mpc.self]) = mpc.keys0 \cup KeysOf(flrgs[mpc.model])
          /\ \A i \in 1..Len(flrgs[mpc.model]) :
                LET it == flrgs[mpc.model][i]
                IN  it.key \notin mpc.keys0 =>
                        flrgs[mpc.self][Lookup(flrgs[mpc.self], it.key)].gid = it.gid
    /\ (mpc.phase = "rhs" /\ mpc.self # mpc.model) => mpc.na <= mpc.n0

\* the same, for the merges in which the incoming group is not the group self holds
C9_HoldsWithoutAliasing ==
    (mpc.phase = "rhs" /\
        flrgs[mpc.model][mpc.ki].gid #
            flrgs[mpc.self][Lookup(flrgs[mpc.self], heap[flrgs[mpc.model][mpc.ki].gid].key)].gid)
    => mpc.na <= mpc.n0

(***************************************************************************)
(* The specification of fuzzy: one call on a model whose sets are a dict   *)
(* of up to MaxSets fuzzy sets, as the constructor and fit leave it.       *)
(***************************************************************************)
SetNames == <<"A", "B", "C", "D", "E", "F">>
Points == 0..1
Memberships == [1..Cardinality(Points) -> 0..MaxMu]

\* the dict of the first n named sets with the membership functions mfs
SetDict(n, mfs) == Dict([i \in 1..n |-> FuzzySet(SetNames[i], mfs[i])])

InitFuzzy ==
    /\ pc = "ready"
    /\ op = "fuzzy"
    /\ \E n \in 0..MaxSets : \E mfs \in [1..n -> Memberships] :
          self = [FTS(1, NoPartitioner) EXCEPT !.sets = SetDict(n, mfs)]
    /\ old = self
    /\ data \in {<<d>> : d \in Points}
    /\ kwargs = <<>>
    /\ trace = <<>>
    /\ work = <<>>
    /\ ret = Unbound
    /\ raised = "none"
    /\ NoMerge

Fuzzy ==
    /\ pc = "ready"
    /\ op = "fuzzy"
    /\ LET r == fuzzy(self, data[1])
       IN  /\ ret' = IF r.err = "none" THEN Bound(r.val) ELSE Unbound
           /\ raised' = r.err
    /\ pc' = "done"
    /\ UNCHANGED <<op, self, old, data, kwargs, trace, work, heap, flrgs, mpc>>

NextFuzzy == Fuzzy

SpecFuzzy == InitFuzzy /\ [][NextFuzzy]_vars

\* C10: with a non-empty set mapping fuzzy(d) returns the name and the membership of a
\* set whose membership at d is at least that of every other set, and of the last such
\* set in iteration order when several share the maximum (also when all are 0); with
\* no sets it returns the empty name and membership 0.
C10_LastMaximalSet ==
    (pc = "done" /\ op = "fuzzy") =>
        LET items == self.sets.items
            d == data[1]
        IN  /\ raised = "none"
            /\ ret.bound
            /\ items = <<>> => ret.val = Best("", 0)
            /\ items # <<>> =>
                  \E i \in 1..Len(items) :
                      /\ ret.val.fuzzyset = items[i].name
                      /\ ret.val.membership = membership(items[i], d)
                      /\ \A j \in 1..Len(items) : membership(items[j], d) <= membership(items[i], d)
                      /\ \A j \in (i + 1)..Len(items) : membership(items[j], d) < membership(items[i], d)

C10_Witness ==
    /\ pc = "done" /\ op = "fuzzy"
    /\ Len(self.sets.items) = 3
    /\ membership(self.sets.items[1], data[1]) = 2
    /\ membership(self.sets.items[2], data[1]) = 2
    /\ membership(self.sets.items[3], data[1]) = 1
    /\ ret.val = Best("B", 2)

\* the all-zero case of C10: the last set is returned with membership 0
C10_WitnessAllZero ==
    /\ pc = "done" /\ op = "fuzzy"
    /\ Len(self.sets.items) = 2
    /\ \A i \in 1..2 : membership(self.sets.items[i], data[1]) = 0
    /\ ret.val = Best("B", 0)

(***************************************************************************)
(* pyFTS.models.multivariate.common.fuzzyfy_instance.  A variable          *)
(* descriptor is its name and its partitioner; the partitioner carries the *)
(* dict of fuzzy sets and the list ordered_sets of their names.            *)
(***************************************************************************)
OrderedPartitioner(sets, ordered_sets) ==
    [none |-> FALSE, sets |-> sets, ordered_sets |-> ordered_sets]

Variable(name, partitioner) == [name |-> name, partitioner |-> partitioner]

\* var.partitioner.sets[key]
SetAt(sets, key) == sets.items[CHOOSE i \in 1..Len(sets.items) : sets.items[i].name = key]

\* mutant: a membership equal to the cut is kept
Exceeds_OrEqual(mu, alpha_cut) == mu >= alpha_cut

\* line 7: mv > alpha_cut
Exceeds(mu, alpha_cut) == mu > alpha_cut

\* 0, 1, ..., n - 1
Range(n) == [i \in 1..n |-> i - 1]

\* lines 6-9: the memberships in ordered_sets order, the positions that exceed the
\* cut in increasing order (np.argwhere, np.ravel), and the pairs at these positions
fuzzyfy_instance(data_point, var, alpha_cut) ==
    LET ordered == var.partitioner.ordered_sets
        mv == [i \in 1..Len(ordered) |-> membership(SetAt(var.partitioner.sets, ordered[i]), data_point)]
        ix == SelectSeq(Range(Len(mv)), LAMBDA i : Exceeds(mv[i + 1], alpha_cut))
    IN  [k \in 1..Len(ix) |-> <<var.name, ordered[ix[k] + 1]>>]

(***************************************************************************)
(* The specification of fuzzyfy_instance: one call on a variable with up   *)
(* to MaxSets sets, each with a grade 0..MaxMu at every observation, whose *)
(* ordered_sets lists the names of the sets in any order.                  *)
(***************************************************************************)
VariableNames == {"x1", "x2"}

Flat(g) == [p \in 1..Cardinality(Points) |-> g]

Orderings(n) == {p \in [1..n -> 1..n] : \A i, j \in 1..n : p[i] = p[j] => i = j}

InitFuzzyfy ==
    /\ pc = "ready"
    /\ op = "fuzzyfy_instance"
    /\ self = <<>>
    /\ old = <<>>
    /\ data \in {<<d>> : d \in Points}
    /\ \E name \in VariableNames, n \in 0..MaxSets, cut \in Opt("alpha_cut", 0..MaxMu) :
          \E grades \in [1..n -> 0..MaxMu], p \in Orderings(n) :
              kwargs = ("var" :> Variable(name,
                            OrderedPartitioner(SetDict(n, [i \in 1..n |-> Flat(grades[i])]),
                                               [i \in 1..n |-> SetNames[p[i]]])))
                       @@ cut
    /\ trace = <<>>
    /\ work = <<>>
    /\ ret = Unbound
    /\ raised = "none"
    /\ NoMerge

FuzzyfyInstance ==
    /\ pc = "ready"
    /\ op = "fuzzyfy_instance"
    /\ ret' = Bound(fuzzyfy_instance(data[1], kwargs.var, Get(kwargs, "alpha_cut", 0)))
    /\ raised' = "none"
    /\ pc' = "done"
    /\ UNCHANGED <<op, self, old, data, kwargs, trace, work, heap, flrgs, mpc>>

NextFuzzyfy == FuzzyfyInstance

SpecFuzzyfy == InitFuzzyfy /\ [][NextFuzzyfy]_vars

FuzzyfyDone == pc = "done" /\ op = "fuzzyfy_instance"

\* the membership of the set named s of the variable at the observation of the call
GradeOf(s) == membership(SetAt(kwargs.var.partitioner.sets, s), data[1])

\* the position of the name s in ordered_sets
PositionOf(s) ==
    CHOOSE i \in 1..Len(kwargs.var.partitioner.ordered_sets) :
        kwargs.var.partitioner.ordered_sets[i] = s

\* C11: fuzzyfy_instance(data_point, var, alpha_cut) returns exactly the pairs
\* (var.name, s) for the names s of ordered_sets whose membership at data_point is
\* strictly greater than alpha_cut (0 when it is not passed), in ordered_sets order,
\* each once; a set whose membership equals alpha_cut is excluded and the result is
\* empty when no set exceeds the cut.
C11_PairsAboveCut ==
    FuzzyfyDone =>
        LET r == ret.val
            ordered == kwargs.var.partitioner.ordered_sets
            cut == Get(kwargs, "alpha_cut", 0)
            above == {s \in Elements(ordered) : GradeOf(s) > cut}
        IN  /\ raised = "none" /\ ret.bound
            /\ \A k \in 1..Len(r) : r[k][1] = kwargs.var.name
            /\ {r[k][2] : k \in 1..Len(r)} = above
            /\ Len(r) = Cardinality(above)
            /\ \A k, l \in 1..Len(r) : k < l => PositionOf(r[k][2]) < PositionOf(r[l][2])
            /\ \A s \in Elements(ordered) : GradeOf(s) = cut => \A k \in 1..Len(r) : r[k][2] # s
            /\ above = {} => r = <<>>

\* memberships (0, MaxMu, 1) in ordered_sets order and the default cut: the second and
\* the third set are returned, in this order
C11_Witness ==
    /\ FuzzyfyDone
    /\ "alpha_cut" \notin DOMAIN kwargs
    /\ Len(kwargs.var.partitioner.ordered_sets) = 3
    /\ kwargs.var.partitioner.ordered_sets # <<"A", "B", "C">>
    /\ LET o == kwargs.var.partitioner.ordered_sets
       IN  /\ GradeOf(o[1]) = 0 /\ GradeOf(o[2]) = MaxMu /\ GradeOf(o[3]) = 1
           /\ ret.val = <<<<kwargs.var.name, o[2]>>, <<kwargs.var.name, o[3]>>>>

\* the same memberships and a cut equal to the largest of them: nothing is returned
C11_WitnessAtCut ==
    /\ FuzzyfyDone
    /\ Get(kwargs, "alpha_cut", 0) = MaxMu
    /\ Len(kwargs.var.partitioner.ordered_sets) = 3
    /\ LET o == kwargs.var.partitioner.ordered_sets
       IN  GradeOf(o[1]) = 0 /\ GradeOf(o[2]) = MaxMu /\ GradeOf(o[3]) = 1
    /\ ret.val = <<>>

(***************************************************************************)
(* FTS.__len__ and FTS.len_total.  The keys of flrgs are the strings that  *)
(* FLRG.get_key returns, so len(k) of a key is the length of its name.     *)
(***************************************************************************)
\* len(flrg): the size measure of a rule group, the cardinality of its RHS
GroupLen(g) == Len(g.rhs)

\* line 507: len(self.flrgs)
ModelLen(items) == Len(items)

\* line 515: sum([len(k) for k in self.flrgs]); iterating a dict yields its keys
RECURSIVE len_total(_)
len_total(items) ==
    IF items = <<>> THEN 0
    ELSE Len(Head(items).key) + len_total(Tail(items))

(***************************************************************************)
(* The specification of the size operations: the two models of the merge   *)
(* specification, merged in any order, and then one call of __len__ or of  *)
(* len_total on one of them.                                               *)
(***************************************************************************)
SizeOps == {"__len__", "len_total"}

InitSize ==
    /\ pc = "ready"
    /\ op \in SizeOps
    /\ self \in Models
    /\ old = <<>> /\ data = <<>> /\ kwargs = <<>> /\ trace = <<>> /\ work = <<>>
    /\ ret = Unbound
    /\ raised = "none"
    /\ \E kind \in RHSKinds, present \in SUBSET (1..4) :
         \E rhs \in [1..4 -> RHSChoices(kind)] :
            /\ \A g \in (1..4) \ present : rhs[g] = CHOOSE r \in RHSChoices(kind) : TRUE
            /\ heap = [g \in 1..4 |-> Group(GroupKeys[g], kind, rhs[g])]
            /\ flrgs = [m \in Models |-> OwnItems(m, present)]
    /\ mpc = Idle(0)

\* len(self), between two merges
LenCall ==
    /\ pc = "ready" /\ op = "__len__" /\ mpc.phase = "idle"
    /\ ret' = Bound(ModelLen(flrgs[self]))
    /\ pc' = "done"
    /\ UNCHANGED <<op, self, old, data, kwargs, trace, work, raised, heap, flrgs, mpc>>

\* self.len_total(), between two merges
LenTotalCall ==
    /\ pc = "ready" /\ op = "len_total" /\ mpc.phase = "idle"
    /\ ret' = Bound(len_total(flrgs[self]))
    /\ pc' = "done"
    /\ UNCHANGED <<op, self, old, data, kwargs, trace, work, raised, heap, flrgs, mpc>>

NextSize ==
    \/ \E a \in Models, b \in Models : pc = "ready" /\ MergeCall(a, b)
    \/ pc = "ready" /\ MergeKey
    \/ pc = "ready" /\ MergeAppend
    \/ LenCall
    \/ LenTotalCall

SpecSize == InitSize /\ [][NextSize]_vars

\* the sum of the size measures of the groups of a mapping
RECURSIVE SumOfGroupLens(_)
SumOfGroupLens(items) ==
    IF items = <<>> THEN 0
    ELSE GroupLen(heap[Head(items).gid]) + SumOfGroupLens(Tail(items))

\* C12: the rule-group count len(model) is the number of distinct keys of the
\* mapping, and len_total() is the sum over all rule groups of the group's own size
\* (the cardinality of its RHS), whatever the keys are named.
C12_SizeMeasures ==
    /\ (pc = "done" /\ op = "__len__") =>
          ret.val = Cardinality(KeysOf(flrgs[self]))
    /\ (pc = "done" /\ op = "len_total") =>
          ret.val = SumOfGroupLens(flrgs[self])

\* the first half of C12 alone
C12_CountHolds ==
    (pc = "done" /\ op = "__len__") => ret.val = Cardinality(KeysOf(flrgs[self]))

\* what len_total returns: the sum of the lengths of the key names
C12_TotalIsKeyLengths ==
    (pc = "done" /\ op = "len_total") =>
        /\ (KeysOf(flrgs[self]) = {} => ret.val = 0)
        /\ (KeysOf(flrgs[self]) = {"A"} => ret.val = 1)
        /\ (KeysOf(flrgs[self]) = {"AB"} => ret.val = 2)
        /\ (KeysOf(flrgs[self]) = {"A", "AB"} => ret.val = 3)

(***************************************************************************)
(* FTS.clone_parameters and FTS.append_transformation.  Here a model is    *)
(* the record of all its configuration fields, and its two lists           *)
(* (transformations, transformations_param) are objects on the heap that   *)
(* the fields hold by identity, so that two models can hold one list.      *)
(***************************************************************************)
\* lines 10-66: the fields after construction with the keyword options order and
\* partitioner, by a subclass that sets is_high_order; tid and pid are the fresh lists
FTSObject(order, partitioner, is_high_order, tid, pid) ==
    [sets |-> IF partitioner.none THEN Dict(<<>>) ELSE partitioner.sets,
     order |-> order,
     shortname |-> "",
     name |-> "",
     detail |-> "",
     is_high_order |-> is_high_order,
     min_order |-> 1,
     has_seasonality |-> FALSE,
     has_point_forecasting |-> TRUE,
     has_interval_forecasting |-> FALSE,
     has_probability_forecasting |-> FALSE,
     is_multivariate |-> FALSE,
     dump |-> FALSE,
     transformations |-> tid,
     transformations_param |-> pid,
     original_max |-> 0,
     original_min |-> 0,
     partitioner |-> partitioner,
     auto_update |-> FALSE,
     benchmark_only |-> FALSE,
     indexer |-> "None",
     uod_clip |-> TRUE,
     alpha_cut |-> 0,
     max_lag |-> order]

\* mutant: the transformation list is not taken from the source
clone_parameters_KeepsOwnList(me, model) ==
    [model EXCEPT !.transformations = me.transformations,
                  !.uod_clip = me.uod_clip, !.alpha_cut = me.alpha_cut, !.max_lag = me.max_lag]

\* lines 384-404: every field but uod_clip, alpha_cut and max_lag is assigned from
\* the source; the lists are assigned as they are, by identity
clone_parameters(me, model) ==
    [model EXCEPT !.uod_clip = me.uod_clip, !.alpha_cut = me.alpha_cut, !.max_lag = me.max_lag]

\* lines 428-430 on the heap h
append_transformation(h, me, transformation) ==
    IF transformation # "None"
    THEN [h EXCEPT ![me.transformations] = Append(@, transformation)]
    ELSE h

(***************************************************************************)
(* The specification of clone_parameters: two models, and calls of         *)
(* clone_parameters and append_transformation on them in any order.        *)
(***************************************************************************)
CloneModels == {"m1", "m2"}
ListsOf == [m1 |-> <<1, 2>>, m2 |-> <<3, 4>>]
SomePartitioner == Partitioner(Dict(<<FuzzySet("A", <<0, 1>>)>>))

\* the pairs (a, b) of `old` that stay after a's fields were assigned anew
Keep(pairs, a) == {p \in pairs : p[1] # a /\ p[2] # a}

InitClone ==
    /\ pc = "ready"
    /\ op = "__init__"
    /\ \E order \in [CloneModels -> 1..MaxLag],
          part \in [CloneModels -> {NoPartitioner, SomePartitioner}],
          high \in [CloneModels -> BOOLEAN] :
          self = [m \in CloneModels |->
                     FTSObject(order[m], part[m], high[m], ListsOf[m][1], ListsOf[m][2])]
    /\ heap = [i \in 1..4 |-> <<>>]
    /\ old = {}
    /\ data = <<>> /\ kwargs = <<>> /\ work = <<>>
    /\ trace = 0
    /\ ret = Unbound
    /\ raised = "none"
    /\ flrgs = <<>>
    /\ mpc = Idle(0)

\* a.clone_parameters(b); `old` records that a was cloned from b
CloneParameters(a, b) ==
    /\ op' = "clone_parameters"
    /\ kwargs' = [self |-> a, model |-> b]
    /\ self' = [self EXCEPT ![a] = clone_parameters(self[a], self[b])]
    /\ old' = IF a = b THEN old ELSE Keep(old, a) \cup {<<a, b>>}
    /\ work' = heap
    /\ UNCHANGED <<pc, data, trace, ret, raised, heap, flrgs, mpc>>

\* a.append_transformation(t); `work` keeps the lists as they were before the call
AppendTransformation(a, t) ==
    /\ t # "None" => trace < MaxAppends
    /\ op' = "append_transformation"
    /\ kwargs' = [self |-> a, transformation |-> t]
    /\ heap' = append_transformation(heap, self[a], t)
    /\ work' = heap
    /\ trace' = IF t # "None" THEN trace + 1 ELSE trace
    /\ UNCHANGED <<pc, self, old, data, ret, raised, flrgs, mpc>>

NextClone ==
    \/ \E a \in CloneModels, b \in CloneModels : CloneParameters(a, b)
    \/ \E a \in CloneModels, t \in Transformations \cup {"None"} : AppendTransformation(a, t)

SpecClone == InitClone /\ [][NextClone]_vars

\* the transformation pipeline of model m, now and before the last call
Pipeline(m) == heap[self[m].transformations]
PipelineBefore(m) == work[self[m].transformations]

ClonedFields ==
    {"order", "shortname", "name", "detail", "is_high_order", "min_order",
     "has_seasonality", "has_point_forecasting", "has_interval_forecasting",
     "has_probability_forecasting", "is_multivariate", "original_max", "original_min",
     "partitioner", "sets", "indexer"}

\* C13: after a.clone_parameters(b), and as long as neither is cloned anew, a's order,
\* names, capability flags, original_min/max, partitioner, sets and indexer equal
\* b's and both hold the same transformation list: the pipelines are identical, a
\* transformation appended to either is in the pipeline of the other, and appending
\* None leaves every pipeline as it was.
C13_ShallowClone ==
    /\ \A p \in old :
          /\ \A f \in ClonedFields : self[p[1]][f] = self[p[2]][f]
          /\ self[p[1]].transformations = self[p[2]].transformations
          /\ Pipeline(p[1]) = Pipeline(p[2])
          /\ (op = "append_transformation" /\ kwargs.transformation # "None"
                /\ kwargs.self \in {p[1], p[2]}) =>
                  /\ Pipeline(p[1]) = Append(PipelineBefore(p[1]), kwargs.transformation)
                  /\ Pipeline(p[2]) = Append(PipelineBefore(p[2]), kwargs.transformation)
    /\ (op = "append_transformation" /\ kwargs.transformation = "None") =>
          \A m \in CloneModels : Pipeline(m) = PipelineBefore(m)

\* m1 was cloned from m2 and a transformation was then appended to m2: m1 has it
C13_Witness ==
    /\ <<"m1", "m2">> \in old
    /\ op = "append_transformation"
    /\ kwargs.self = "m2" /\ kwargs.transformation = "neg"
    /\ PipelineBefore("m1") = <<"shift">>
    /\ Pipeline("m1") = <<"shift", "neg">>
    /\ old = {<<"m1", "m2">>}

\* None was appended to a model that holds a shared, non-empty list
C13_WitnessNone ==
    /\ <<"m1", "m2">> \in old
    /\ op = "append_transformation"
    /\ kwargs.transformation = "None"
    /\ Pipeline("m1") = <<"shift">>
    /\ Pipeline("m2") = <<"shift">>

====
